---- MODULE Spec2Model ----
(***************************************************************************)
(* run_sumo.py: a client loop over a traffic simulator's remote-control    *)
(* API (TraCI).  run_simulation starts the simulator, advances it step by  *)
(* step, forces one vehicle to stop at one step, adds an unauthorized      *)
(* vehicle at a later step, and runs detect_anomalies after every step.    *)
(*                                                                         *)
(* The simulator is the environment: the vehicle ID list it returns after  *)
(* each simulationStep, the speed it returns for each listed vehicle, the  *)
(* clock value and the failure of any call are inputs drawn from small     *)
(* sets.  Speeds are integers in cm/s, so the source's 0.1 m/s is 10.      *)
(* Vehicle IDs are sequences of one-character strings.                     *)
(***************************************************************************)
EXTENDS Integers, Sequences, FiniteSets

(***************************************************************************)
(* Program constants (src/run_sumo.py)                                     *)
(***************************************************************************)
STOP_TIME_THRESHOLD == 5

UNAUTHORIZED_VEHICLE_PREFIX == <<"u", "n", "a", "u", "t", "h">>

\* `speed < 0.1` in detect_anomalies, in cm/s
StoppedSpeed == 10

\* range(300), step == 50, step == 100 in run_simulation
NumSteps == 300

StopStep == 50

UnauthStep == 100

(***************************************************************************)
(* Bounds of the model                                                     *)
(***************************************************************************)
\* The scaled-down run: the same loop with a shorter range and earlier
\* injection steps, so that the simulator's inputs can be left free.
ShortSteps == 11

ShortStopStep == 5

ShortUnauthStep == 7

\* The busy run: a still shorter run over a route file with several vehicles.
BusySteps == 5

BusyStopStep == 2

BusyUnauthStep == 3

(***************************************************************************)
(* The environment's input sets                                            *)
(***************************************************************************)
Veh0 == <<"v", "e", "h", "0">>

\* An ID of the route file that shares five characters with the prefix.
Unauto == <<"u", "n", "a", "u", "t", "o">>

\* An ID of the route file that starts with the prefix.
UnauthX == <<"u", "n", "a", "u", "t", "h", "X">>

\* Speeds the simulator reports, in cm/s: 0, just below 0.1 m/s and exactly
\* 0.1 m/s.
Speeds == {0, 9, 10}

\* Free-flowing traffic: no vehicle is ever observed below 0.1 m/s.
MovingSpeeds == {10}

\* Values of int(time.time()) at the unauthorized injection.
Clock == {7, 1761714000}

(***************************************************************************)
(* Pure helpers                                                            *)
(***************************************************************************)
\* dict.get(key, default)
Get(d, k, default) == IF k \in DOMAIN d THEN d[k] ELSE default

\* d[key] = value
Put(d, k, val) == [x \in DOMAIN d \cup {k} |-> IF x = k THEN val ELSE d[x]]

EmptyDict == [x \in {} |-> 0]

Digit(d) == <<"0", "1", "2", "3", "4", "5", "6", "7", "8", "9">>[d + 1]

\* str(n) for n >= 0
RECURSIVE Str(_)
Str(n) == IF n < 10 THEN <<Digit(n)>> ELSE Append(Str(n \div 10), Digit(n % 10))

\* vid.startswith(prefix)
StartsWith(vid, prefix) ==
    /\ Len(prefix) <= Len(vid)
    /\ SubSeq(vid, 1, Len(prefix)) = prefix

\* new_id = UNAUTHORIZED_VEHICLE_PREFIX + str(int(time.time()))
NewId(now) == UNAUTHORIZED_VEHICLE_PREFIX \o Str(now)

NewIds == {NewId(t) : t \in Clock}

\* Mutant of IsStopped: `speed == 0`, as the comments of the script word it.
IsStoppedAtZero(speed) == speed = 0

\* `speed < 0.1`
IsStopped(speed) == speed < StoppedSpeed

\* The counter written for vid by one pass of the loop body of
\* detect_anomalies (lines 96-101).
CounterAfter(counters, vid, speed) ==
    IF IsStopped(speed) THEN Get(counters, vid, 0) + 1 ELSE 0

\* stop_counters after detect_anomalies has processed the vehicles `ids`.
Counted(counters, ids, speed) ==
    [v \in DOMAIN counters \cup ids |->
        IF v \in ids THEN CounterAfter(counters, v, speed[v]) ELSE counters[v]]

\* Mutant of StopAnomalies: `>=` in place of `==` on line 98.
StopAnomaliesAtLeast(counters, ids, speed) ==
    {v \in ids : /\ IsStopped(speed[v])
                 /\ CounterAfter(counters, v, speed[v]) >= STOP_TIME_THRESHOLD}

\* The vehicles of `ids` for which line 99 prints a prolonged-stop anomaly.
StopAnomalies(counters, ids, speed) ==
    {v \in ids : /\ IsStopped(speed[v])
                 /\ CounterAfter(counters, v, speed[v]) = STOP_TIME_THRESHOLD}

\* Mutant of UnauthAnomalies: the prefix test indented into the else branch
\* of the speed test.
UnauthAnomaliesWhenMoving(ids, speed) ==
    {v \in ids : /\ ~IsStopped(speed[v])
                 /\ StartsWith(v, UNAUTHORIZED_VEHICLE_PREFIX)}

\* The vehicles of `ids` for which line 105 prints an unauthorized anomaly.
UnauthAnomalies(ids, speed) ==
    {v \in ids : StartsWith(v, UNAUTHORIZED_VEHICLE_PREFIX)}


(***************************************************************************)
(* The runs: the loop's range and injection steps, the route file's        *)
(* vehicle IDs and the speeds the simulator reports.                       *)
(***************************************************************************)
FullRun ==
    [steps |-> NumSteps, stopAt |-> StopStep, unauthAt |-> UnauthStep,
     fleet |-> {Veh0}, speeds |-> MovingSpeeds]

ShortRun ==
    [steps |-> ShortSteps, stopAt |-> ShortStopStep, unauthAt |-> ShortUnauthStep,
     fleet |-> {Veh0}, speeds |-> Speeds]

BusyRun ==
    [steps |-> BusySteps, stopAt |-> BusyStopStep, unauthAt |-> BusyUnauthStep,
     fleet |-> {Unauto, UnauthX}, speeds |-> Speeds]

AllIds == {Veh0, Unauto, UnauthX} \cup NewIds

(***************************************************************************)
(* State                                                                   *)
(***************************************************************************)
VARIABLES
    pc,             \* position in run_simulation
    step,           \* the loop variable of run_simulation
    connected,      \* the TraCI connection is open
    error,          \* the call whose exception left run_simulation, or "none"
    vehList,        \* simulator: traci.vehicle.getIDList()
    added,          \* simulator: vehicles accepted by traci.vehicle.add
    commanded,      \* simulator: speeds set by traci.vehicle.setSpeed
    stop_counters,  \* the global dict stop_counters
    stopReported,   \* output of this step: prolonged-stop anomalies printed
    unauthReported, \* output of this step: unauthorized anomalies printed
    addFailed,      \* output: "[ERROR] Could not inject unauthorized vehicle"
    calls,          \* history: the calls of the current loop iteration
    nSim,           \* history: calls of traci.simulationStep
    nStop,          \* history: calls of inject_sudden_stop_anomaly
    nUnauth,        \* history: calls of inject_unauthorized_vehicle
    nDetect,        \* history: completed calls of detect_anomalies
    consec,         \* history: per ID, the consecutive steps up to now in
                    \*   which it was listed with speed below 0.1
    reportsInRun,   \* history: per ID, prolonged-stop reports since it was
                    \*   last observed at or above 0.1
    ctrAtStop,      \* history: the stopped vehicle's counter at injection
    repSinceStop    \* history: the stopped vehicle was reported since

vars == <<pc, step, connected, error, vehList, added, commanded, stop_counters,
          stopReported, unauthReported, addFailed, calls, nSim, nStop, nUnauth,
          nDetect, consec, reportsInRun, ctrAtStop, repSinceStop>>

simulator == <<vehList, added, commanded>>
output == <<stopReported, unauthReported, addFailed>>
counts == <<nSim, nStop, nUnauth, nDetect>>
detectHistory == <<consec, reportsInRun, repSinceStop>>

Init ==
    /\ pc = "start"
    /\ step = 0
    /\ connected = FALSE
    /\ error = "none"
    /\ vehList = {}
    /\ added = {}
    /\ commanded = EmptyDict
    /\ stop_counters = EmptyDict
    /\ stopReported = {}
    /\ unauthReported = {}
    /\ addFailed = FALSE
    /\ calls = <<>>
    /\ nSim = 0
    /\ nStop = 0
    /\ nUnauth = 0
    /\ nDetect = 0
    /\ consec = [v \in AllIds |-> 0]
    /\ reportsInRun = [v \in AllIds |-> 0]
    /\ ctrAtStop = 0
    /\ repSinceStop = FALSE

(***************************************************************************)
(* run_simulation                                                          *)
(***************************************************************************)
\* Mutant of Uncaught: the exception is swallowed and the loop goes on.
Swallowed(call) ==
    /\ pc' = "loop"
    /\ error' = call

\* An exception that no try/except of the script catches leaves
\* run_simulation (and the script) at the call that raised it.
Uncaught(call) ==
    /\ pc' = "aborted"
    /\ error' = call

\* Mutant of LoopContinues: one iteration too many.
LoopContinuesInclusive(r) == step <= r.steps

\* `for step in range(...)`: the loop body runs once more
LoopContinues(r) == step < r.steps

\* `if step == 50`
StopDue(r) == step = r.stopAt

\* `if step == 100`
UnauthDue(r) == step = r.unauthAt

\* Where run_simulation goes after line 43.
AfterStop(r) == IF UnauthDue(r) THEN "inject_unauth" ELSE "detect"

\* Where run_simulation goes after line 39.
AfterStep(r) == IF StopDue(r) THEN "inject_stop" ELSE AfterStop(r)

\* traci.start(sumo_cmd)
Start ==
    /\ pc = "start"
    /\ pc' = "loop"
    /\ connected' = TRUE
    /\ UNCHANGED <<step, error, simulator, stop_counters, output, calls, counts,
                   detectHistory, ctrAtStop>>

StartFail ==
    /\ pc = "start"
    /\ Uncaught("start")
    /\ UNCHANGED <<step, connected, simulator, stop_counters, output, calls,
                   counts, detectHistory, ctrAtStop>>

\* traci.simulationStep(): the simulator moves on; every vehicle of the
\* route file or added through TraCI may be on the network afterwards.
SimulationStep(r) ==
    /\ pc = "loop"
    /\ LoopContinues(r)
    /\ vehList' \in SUBSET (r.fleet \cup added)
    /\ pc' = AfterStep(r)
    /\ stopReported' = {}
    /\ unauthReported' = {}
    /\ calls' = <<"simulationStep">>
    /\ nSim' = nSim + 1
    /\ UNCHANGED <<step, connected, error, added, commanded, stop_counters,
                   addFailed, nStop, nUnauth, nDetect, detectHistory, ctrAtStop>>

SimulationStepFail(r) ==
    /\ pc = "loop"
    /\ LoopContinues(r)
    /\ Uncaught("simulationStep")
    /\ calls' = <<"simulationStep">>
    /\ nSim' = nSim + 1
    /\ UNCHANGED <<step, connected, simulator, stop_counters, output, nStop,
                   nUnauth, nDetect, detectHistory, ctrAtStop>>

\* The loop is exhausted: print "[INFO] Simulation finished." and return.
Finish(r) ==
    /\ pc = "loop"
    /\ ~LoopContinues(r)
    /\ pc' = "finished"
    /\ UNCHANGED <<step, connected, error, simulator, stop_counters, output,
                   calls, counts, detectHistory, ctrAtStop>>

\* Mutant of StopCandidates: the choice is made among every vehicle seen so
\* far instead of the current list.
StopCandidatesSeen(ids) == ids \cup DOMAIN stop_counters

\* The vehicles random.choice(vehicle_ids) can return.
StopCandidates(ids) == ids

(***************************************************************************)
(* inject_sudden_stop_anomaly                                              *)
(***************************************************************************)
InjectSuddenStop(r) ==
    /\ pc = "inject_stop"
    /\ nStop' = nStop + 1
    /\ calls' = Append(calls, "inject_sudden_stop_anomaly")
    /\ IF vehList = {}
       THEN UNCHANGED <<commanded, ctrAtStop>>
       ELSE \E veh_to_stop \in StopCandidates(vehList) :
               /\ commanded' = Put(commanded, veh_to_stop, 0)
               /\ ctrAtStop' = Get(stop_counters, veh_to_stop, 0)
    /\ pc' = AfterStop(r)
    /\ UNCHANGED <<step, connected, error, vehList, added, stop_counters, output,
                   nSim, nUnauth, nDetect, detectHistory>>

\* getIDList raises, or setSpeed raises for the chosen vehicle.
InjectSuddenStopFail ==
    /\ pc = "inject_stop"
    /\ nStop' = nStop + 1
    /\ calls' = Append(calls, "inject_sudden_stop_anomaly")
    /\ \/ Uncaught("getIDList")
       \/ vehList # {} /\ Uncaught("setSpeed")
    /\ UNCHANGED <<step, connected, simulator, stop_counters, output, nSim,
                   nUnauth, nDetect, detectHistory, ctrAtStop>>

(***************************************************************************)
(* inject_unauthorized_vehicle                                             *)
(***************************************************************************)
InjectUnauthorized ==
    /\ pc = "inject_unauth"
    /\ nUnauth' = nUnauth + 1
    /\ calls' = Append(calls, "inject_unauthorized_vehicle")
    /\ \E now \in Clock : added' = added \cup {NewId(now)}
    /\ pc' = "detect"
    /\ UNCHANGED <<step, connected, error, vehList, commanded, stop_counters,
                   output, nSim, nStop, nDetect, detectHistory, ctrAtStop>>

\* Mutant of InjectUnauthorizedFail: the except clause prints the error and
\* raises it again.
InjectUnauthorizedReraise ==
    /\ pc = "inject_unauth"
    /\ nUnauth' = nUnauth + 1
    /\ calls' = Append(calls, "inject_unauthorized_vehicle")
    /\ addFailed' = TRUE
    /\ Uncaught("add")
    /\ UNCHANGED <<step, connected, simulator, stop_counters, stopReported,
                   unauthReported, nSim, nStop, nDetect, detectHistory, ctrAtStop>>

\* traci.vehicle.add raises TraCIException: the except clause prints the
\* error and the function returns.
InjectUnauthorizedFail ==
    /\ pc = "inject_unauth"
    /\ nUnauth' = nUnauth + 1
    /\ calls' = Append(calls, "inject_unauthorized_vehicle")
    /\ addFailed' = TRUE
    /\ pc' = "detect"
    /\ UNCHANGED <<step, connected, error, simulator, stop_counters, stopReported,
                   unauthReported, nSim, nStop, nDetect, detectHistory, ctrAtStop>>

\* traci.vehicle.add raises an exception that is no TraCIException (a
\* FatalTraCIError when the connection is lost): the except clause of line
\* 80 does not match, nothing is printed and the exception leaves
\* inject_unauthorized_vehicle and run_simulation.
InjectUnauthorizedAbort ==
    /\ pc = "inject_unauth"
    /\ nUnauth' = nUnauth + 1
    /\ calls' = Append(calls, "inject_unauthorized_vehicle")
    /\ Uncaught("add")
    /\ UNCHANGED <<step, connected, simulator, stop_counters, output, nSim,
                   nStop, nDetect, detectHistory, ctrAtStop>>

(***************************************************************************)
(* detect_anomalies                                                        *)
(***************************************************************************)
\* The history variables after the observation of one step.
Observe(ids, speed, reported) ==
    /\ consec' = [v \in AllIds |->
                    IF v \in ids /\ speed[v] < StoppedSpeed THEN consec[v] + 1 ELSE 0]
    /\ reportsInRun' = [v \in AllIds |->
                    IF v \in ids /\ speed[v] >= StoppedSpeed
                    THEN 0
                    ELSE reportsInRun[v] + (IF v \in reported THEN 1 ELSE 0)]
    /\ repSinceStop' = (repSinceStop \/ (DOMAIN commanded \cap reported # {}))

DetectAnomalies(r) ==
    /\ pc = "detect"
    /\ \E speed \in [vehList -> r.speeds] :
          /\ stop_counters' = Counted(stop_counters, vehList, speed)
          /\ stopReported' = StopAnomalies(stop_counters, vehList, speed)
          /\ unauthReported' = UnauthAnomalies(vehList, speed)
          /\ Observe(vehList, speed, StopAnomalies(stop_counters, vehList, speed))
    /\ calls' = Append(calls, "detect_anomalies")
    /\ nDetect' = nDetect + 1
    /\ step' = step + 1
    /\ pc' = "loop"
    /\ UNCHANGED <<connected, error, simulator, addFailed, nSim, nStop, nUnauth,
                   ctrAtStop>>

\* getIDList raises before anything is done, or getSpeed raises after the
\* vehicles `done` (any part of the list, in list order) were processed.
DetectAnomaliesFail(r) ==
    /\ pc = "detect"
    /\ calls' = Append(calls, "detect_anomalies")
    /\ \/ /\ Uncaught("getIDList")
          /\ UNCHANGED <<stop_counters, stopReported, unauthReported>>
       \/ \E done \in SUBSET vehList : \E speed \in [done -> r.speeds] :
             /\ done # vehList
             /\ Uncaught("getSpeed")
             /\ stop_counters' = Counted(stop_counters, done, speed)
             /\ stopReported' = StopAnomalies(stop_counters, done, speed)
             /\ unauthReported' = UnauthAnomalies(done, speed)
    /\ UNCHANGED <<step, connected, simulator, addFailed, counts, detectHistory,
                   ctrAtStop>>

(***************************************************************************)
(* Specifications                                                          *)
(***************************************************************************)
Run(r) ==
    \/ Start
    \/ StartFail
    \/ SimulationStep(r)
    \/ SimulationStepFail(r)
    \/ InjectSuddenStop(r)
    \/ InjectSuddenStopFail
    \/ InjectUnauthorized
    \/ InjectUnauthorizedFail
    \/ InjectUnauthorizedAbort
    \/ DetectAnomalies(r)
    \/ DetectAnomaliesFail(r)
    \/ Finish(r)

Next == Run(FullRun)

NextShort == Run(ShortRun)

NextBusy == Run(BusyRun)

\* The script as written: 300 steps, injections at steps 50 and 100.
Spec == Init /\ [][Next]_vars

\* The script runs on its own: it takes its next step whenever it has one.
FairSpec == Spec /\ WF_vars(Next)

\* The scaled-down run with free simulator inputs.
SpecShort == Init /\ [][NextShort]_vars

\* The scaled-down run over a busy network.
SpecBusy == Init /\ [][NextBusy]_vars

(***************************************************************************)
(* Properties                                                              *)
(***************************************************************************)
\* A detection has just completed: the outputs and counters are those of
\* the step before `step`.
StepDone == pc \in {"loop", "finished"} /\ step > 0

Uncaughtable == {"start", "simulationStep", "getIDList", "getSpeed", "setSpeed"}

\* C1: after a completed detection, a prolonged-stop anomaly was reported for
\* a vehicle if and only if this step was its 5th consecutive simulation
\* step with observed speed below 0.1.
C1_ReportIffFifthConsecutive ==
    StepDone =>
        \A v \in AllIds : (v \in stopReported) <=> (consec[v] = 5)

\* The first six characters of the ID spell "unauth".
SpellsUnauth(v) ==
    /\ Len(v) >= 6
    /\ \A i \in 1..6 : v[i] = <<"u", "n", "a", "u", "t", "h">>[i]

\* C2: after every completed detection, the unauthorized-vehicle anomalies
\* reported are exactly the listed vehicles whose ID starts with the prefix;
\* the vehicle added by inject_unauthorized_vehicle is reported whenever it
\* is listed, whatever its speed and stop counter.
C2_UnauthReportedIffListedWithPrefix ==
    StepDone =>
        /\ \A v \in AllIds :
              (v \in unauthReported) <=> (v \in vehList /\ SpellsUnauth(v))
        /\ \A v \in added : v \in vehList => v \in unauthReported

\* C2 witness: the added vehicle is listed, observed stopped and reported,
\* while a listed vehicle with a near-miss ID is not.
C2_Witness ==
    /\ StepDone
    /\ \E v \in added :
          /\ v \in unauthReported
          /\ v \in DOMAIN stop_counters /\ stop_counters[v] = 1
    /\ Unauto \in vehList
    /\ Unauto \notin unauthReported

\* The stopped vehicle has been listed with speed below 0.1 in every step
\* after the injection step, for at least STOP_TIME_THRESHOLD steps.
HeldStopped(v) ==
    /\ StepDone
    /\ v \in DOMAIN commanded
    /\ step - (ShortStopStep + 1) >= STOP_TIME_THRESHOLD
    /\ consec[v] >= step - (ShortStopStep + 1)

\* C3 (as claimed): a vehicle stopped by the injection that stays listed
\* with speed below 0.1 is reported within STOP_TIME_THRESHOLD steps,
\* whatever its speed history before the injection.
C3_ReportedWithinThreshold ==
    \A v \in AllIds : HeldStopped(v) => repSinceStop

\* C3 (amended): the same, provided the vehicle's stop counter was below
\* STOP_TIME_THRESHOLD when the injection was made; a vehicle whose counter
\* had reached the threshold by then is not reported again while it stays
\* stopped from the injection step on.
C3_ReportedWithinThresholdIfNotYetCounted ==
    \A v \in AllIds :
        /\ (HeldStopped(v) /\ ctrAtStop < STOP_TIME_THRESHOLD) => repSinceStop
        /\ (/\ HeldStopped(v)
            /\ ctrAtStop >= STOP_TIME_THRESHOLD
            /\ consec[v] >= step - ShortStopStep) => ~repSinceStop

\* C3 witness: a vehicle with 3 stopped steps behind it at the injection is
\* held stopped and has been reported.
C3_Witness ==
    \E v \in AllIds :
        HeldStopped(v) /\ ctrAtStop = 3 /\ repSinceStop /\ stop_counters[v] > 5

\* The calls run_simulation makes in iteration s, in order.
ExpectedCalls(s) ==
    <<"simulationStep">>
    \o (IF s = 50 THEN <<"inject_sudden_stop_anomaly">> ELSE <<>>)
    \o (IF s = 100 THEN <<"inject_unauthorized_vehicle">> ELSE <<>>)
    \o <<"detect_anomalies">>

IsPrefixOf(a, b) == Len(a) <= Len(b) /\ SubSeq(b, 1, Len(a)) = a

C4_Inv ==
    error = "none" =>
        /\ nSim <= 300 /\ nDetect <= 300 /\ nStop <= 1 /\ nUnauth <= 1
        /\ pc = "finished" =>
              nSim = 300 /\ nDetect = 300 /\ nStop = 1 /\ nUnauth = 1
        /\ pc = "loop" => nSim = step /\ nDetect = step
        /\ pc = "loop" /\ step > 0 => calls = ExpectedCalls(step - 1)
        /\ pc \in {"inject_stop", "inject_unauth", "detect"} =>
              /\ IsPrefixOf(calls, ExpectedCalls(step))
              /\ Len(calls) < Len(ExpectedCalls(step))
              /\ nSim = step + 1 /\ nDetect = step
        /\ nStop = (IF step > 50 \/ (step = 50 /\ pc \in {"inject_unauth", "detect"})
                    THEN 1 ELSE 0)
        /\ nUnauth = (IF step > 100 \/ (step = 100 /\ pc = "detect") THEN 1 ELSE 0)

\* C4: when no simulator call fails, run_simulation makes exactly 300
\* iterations and then finishes; the stop injection is called once, in step
\* 50, the unauthorized injection once, in step 100; each iteration calls
\* simulationStep, then the injections due, then detect_anomalies once.
C4_ExactRun ==
    /\ []C4_Inv
    /\ <>(pc = "finished" \/ error # "none")

\* C4 witness: the run finished without a failure after 300 detections.
C4_Witness ==
    pc = "finished" /\ error = "none" /\ nDetect = 300 /\ ~addFailed

\* C5: when the loop of run_simulation is done, the TraCI connection opened
\* by traci.start is closed.
C5_ClosedWhenDone == pc = "finished" => ~connected

\* C6: a TraCIException of the vehicle add at step 100 is reported and
\* recovered: nothing is added, stop_counters is unchanged, detect_anomalies
\* still runs in step 100, and the run goes on to step 299 and finishes
\* unless another call fails.
C6_AddFailureRecovered ==
    /\ [][(pc = "inject_unauth" /\ addFailed') =>
            /\ step = 100 /\ step' = step
            /\ pc' = "detect" /\ error' = "none"
            /\ added' = added /\ vehList' = vehList
            /\ stop_counters' = stop_counters]_vars
    /\ [](addFailed =>
            /\ added = {}
            /\ error \in Uncaughtable \cup {"none"}
            /\ (pc = "loop" /\ step = 101) =>
                  calls = <<"simulationStep", "inject_unauthorized_vehicle",
                            "detect_anomalies">>
            /\ pc = "finished" => step = 300 /\ nDetect = 300)
    /\ (addFailed ~> (pc = "finished" \/ error # "none"))

\* C6 witness: the add failed and the run finished after 300 detections.
C6_Witness == addFailed /\ pc = "finished" /\ nDetect = 300 /\ step = 300

\* C7: a failure of start, simulationStep, getIDList, getSpeed or setSpeed
\* leaves run_simulation where it was raised: no later step or detection is
\* executed and "Simulation finished" is not reached.
C7_OtherFailuresAbort ==
    /\ [](error \in Uncaughtable => pc = "aborted")
    /\ [](error \in Uncaughtable \cup {"add", "none"})
    /\ [][error = "none" /\
          (error' \in Uncaughtable => step' = step /\ nDetect' = nDetect)]_vars

\* C7 witness: getSpeed failed in the detection of a later step, after part
\* of the list had been processed.
C7_Witness ==
    /\ pc = "aborted" /\ error = "getSpeed"
    /\ step = 100 /\ nDetect = 100
    /\ DOMAIN stop_counters # {}

\* C8: a prolonged-stop report is printed only in the step where the
\* counter equals STOP_TIME_THRESHOLD, at most once between two observations
\* at or above 0.1; past the threshold the counter keeps increasing without
\* further reports.
C8_OneReportPerStop ==
    /\ [](\A v \in AllIds :
            /\ reportsInRun[v] <= 1
            /\ v \in stopReported =>
                  v \in DOMAIN stop_counters /\ stop_counters[v] = 5)
    /\ [][\A v \in DOMAIN stop_counters :
            (stop_counters[v] >= 5 /\ stop_counters'[v] # stop_counters[v]) =>
                /\ stop_counters'[v] \in {0, stop_counters[v] + 1}
                /\ v \notin stopReported']_vars

\* C8 witness: a vehicle reported once whose counter has passed the
\* threshold.
C8_Witness ==
    \E v \in DOMAIN stop_counters :
        stop_counters[v] = 7 /\ reportsInRun[v] = 1 /\ StepDone

\* C9: inject_sudden_stop_anomaly changes nothing when the vehicle list is
\* empty; otherwise it sets the speed of exactly one vehicle, a listed one,
\* to 0 and leaves every other commanded speed and stop_counters unchanged.
C9_StopInjectionFrame ==
    [][(pc = "inject_stop" /\ pc' # "aborted") =>
        /\ stop_counters' = stop_counters
        /\ vehList' = vehList /\ added' = added
        /\ IF vehList = {}
           THEN commanded' = commanded
           ELSE \E v \in vehList :
                   /\ DOMAIN commanded' = DOMAIN commanded \cup {v}
                   /\ commanded'[v] = 0
                   /\ \A w \in DOMAIN commanded' \ {v} :
                         w \in DOMAIN commanded /\ commanded'[w] = commanded[w]]_vars

\* C9 witness: the injection has stopped one of two listed vehicles.
C9_Witness ==
    /\ pc \in {"inject_unauth", "detect"}
    /\ step = BusyStopStep
    /\ Cardinality(vehList) = 2
    /\ Cardinality(DOMAIN commanded) = 1
    /\ DOMAIN stop_counters # {}

\* C10: after every step, every entry of stop_counters equals the number of
\* immediately preceding consecutive steps in which that vehicle was listed
\* with speed below 0.1, also for an ID that left the list and reappeared.
C10_CounterIsConsecutiveStops ==
    StepDone =>
        \A v \in DOMAIN stop_counters : stop_counters[v] = consec[v]
====
